---- MODULE Spec2Model ----
(***************************************************************************)
(* The evaluation core of ruth: the value graph (Expr), the symbol table   *)
(* of the Engine, the parent-linked Namespace chain and the trampolined    *)
(* evaluator Engine::eval / Engine::eval_rec, as a state machine.          *)
(*                                                                         *)
(* The host stack is explicit: `stack` holds one frame per active          *)
(* invocation of Engine::eval, the innermost first.  A frame's `pc` is     *)
(* the position of that invocation inside eval_rec (or inside the special  *)
(* form eval_rec called).  `ret` carries a value from an invocation that   *)
(* has just returned to the code that called it.                           *)
(***************************************************************************)
EXTENDS Integers, Sequences, FiniteSets, TLC

\* ------------------------------------------------------------------ bounds
\* Namespaces ever allocated in one behaviour (host and evaluator together).
MaxEnvs == 4
\* Namespaces the host creates with Namespace::new before it evaluates.
MaxHostEnvs == 1
\* Host calls of Namespace::insert before it evaluates.
MaxHostInserts == 1
\* Host calls of intern_symbol and unique_symbol before it evaluates.
MaxHostInterns == 2

\* ------------------------------------------------------------ value graph
Integer(n) == [tag |-> "Integer", i |-> n]
Float(x) == [tag |-> "Float", f |-> x]
String(str) == [tag |-> "String", s |-> str]
Symbol(k) == [tag |-> "Symbol", id |-> k]
Pair(a, d) == [tag |-> "Pair", car |-> a, cdr |-> d]
Nil == [tag |-> "Nil"]
SpecialForm(fn, nm) == [tag |-> "SpecialForm", func |-> fn, name |-> nm]
NativeProcedure(fn, nm) == [tag |-> "NativeProcedure", nfunc |-> fn, name |-> nm]
Procedure(a, b, e, v) ==
    [tag |-> "Procedure", args |-> a, body |-> b, env |-> e, variadic |-> v]

\* Option::None and Option::Some(it).
None == [tag |-> "None"]
Some(x) == [tag |-> "Some", it |-> x]

\* ----------------------------------------------------------- symbol table
\* The names add_thtandard_library interns, in the order it interns them.
StdNames ==
    << "quote", "define", "lambda", "lambda*", "if",
       "+", "-", "*", "//", "and", "or", "not", "xor",
       "string", "prn", "cons", "car", "cdr",
       "false", "true", "!",
       "ps1", "ps2", "null" >>

\* The names the reader interns for the programs of this model.
UserNames == << "x", "y", "f", "let", "_" >>

\* Engine::intern_symbol on the engine state eng: the id, and the engine
\* state after the call.
InternSymbol(eng, sym) ==
    IF sym \in DOMAIN eng.interned_symbols
    THEN [id |-> eng.interned_symbols[sym], eng |-> eng]
    ELSE [id |-> eng.akashic_symbol_count,
          eng |-> [interned_symbols |->
                       (sym :> eng.akashic_symbol_count) @@ eng.interned_symbols,
                   akashic_symbol_count |-> eng.akashic_symbol_count + 1]]

\* Engine::get_symbol_str.
GetSymbolStr(eng, symbol_id) ==
    IF \E n \in DOMAIN eng.interned_symbols : eng.interned_symbols[n] = symbol_id
    THEN Some(CHOOSE n \in DOMAIN eng.interned_symbols :
                  eng.interned_symbols[n] = symbol_id)
    ELSE None

\* Engine::unique_symbol: the name is made from the count and interned.
UniqueSymbol(eng) ==
    InternSymbol(eng, "_uniq#" \o ToString(eng.akashic_symbol_count))

RECURSIVE InternAll(_, _)
\* intern_symbol called on each name of a list, in order.
InternAll(eng, names) ==
    IF names = << >> THEN eng
    ELSE InternAll(InternSymbol(eng, Head(names)).eng, Tail(names))

\* ------------------------------------------------------------- cons lists
RECURSIVE ListToSexp(_)
\* Engine::list_to_sexp.
ListToSexp(list) ==
    IF list = << >> THEN Nil
    ELSE Pair(Head(list), ListToSexp(Tail(list)))

RECURSIVE ExprToImproperList(_)
\* Engine::expr_to_improper_list: the elements before the last cdr, and it.
ExprToImproperList(expr) ==
    IF expr.tag = "Pair"
    THEN LET r == ExprToImproperList(expr.cdr)
         IN  [list |-> << expr.car >> \o r.list, last |-> r.last]
    ELSE [list |-> << >>, last |-> expr]

\* sexp_to_list without the test of the last cdr.
SexpToListLax(expr) == Some(ExprToImproperList(expr).list)

\* Engine::sexp_to_list.
SexpToList(expr) ==
    LET r == ExprToImproperList(expr)
    IN  IF r.last.tag = "Nil" THEN Some(r.list) ELSE None

\* make_err with the payload as the tail of the list instead of its third
\* element.
MakeErrDotted(eng, msg, userdata) ==
    LET oh_no == InternSymbol(eng, "!")
    IN  [val |-> IF userdata # None
                 THEN Pair(Symbol(oh_no.id), Pair(String(msg), userdata.it))
                 ELSE ListToSexp(<< Symbol(oh_no.id), String(msg) >>),
         eng |-> oh_no.eng]

\* Engine::make_err: the error value, and the engine state after interning
\* the marker.
MakeErr(eng, msg, userdata) ==
    LET oh_no == InternSymbol(eng, "!")
    IN  [val |-> IF userdata # None
                 THEN ListToSexp(<< Symbol(oh_no.id), String(msg), userdata.it >>)
                 ELSE ListToSexp(<< Symbol(oh_no.id), String(msg) >>),
         eng |-> oh_no.eng]

\* ------------------------------------------------------------- namespaces
\* A Namespace: its mappings (a function on the symbols it binds) and its
\* parent (0 for None, else the index in envs).
Namespace(m, p) == [mappings |-> m, parent |-> p]

EmptyMap == [k \in {} |-> Nil]

\* Namespace::new.
NamespaceNew(parent) == Namespace(EmptyMap, parent)

\* insert that writes in the parent scope when there is one.
InsertIntoParent(heap, e, symbol, target) ==
    LET p == IF heap[e].parent # 0 THEN heap[e].parent ELSE e
    IN  [heap EXCEPT ![p].mappings = (symbol :> target) @@ heap[p].mappings]

\* Namespace::insert on the namespace at index e of the heap.
Insert(heap, e, symbol, target) ==
    [heap EXCEPT ![e].mappings = (symbol :> target) @@ heap[e].mappings]

RECURSIVE LookupOuterFirst(_, _, _)
\* lookup that asks the parent before the local mappings.
LookupOuterFirst(heap, e, symbol) ==
    LET up == IF heap[e].parent # 0
              THEN LookupOuterFirst(heap, heap[e].parent, symbol)
              ELSE None
    IN  IF up # None THEN up
        ELSE IF symbol \in DOMAIN heap[e].mappings
        THEN Some(heap[e].mappings[symbol])
        ELSE None

\* lookup that does not go to the parent.
LookupLocal(heap, e, symbol) ==
    IF symbol \in DOMAIN heap[e].mappings
    THEN Some(heap[e].mappings[symbol])
    ELSE None

RECURSIVE Lookup(_, _, _)
\* Namespace::lookup on the namespace at index e of the heap.
Lookup(heap, e, symbol) ==
    IF symbol \in DOMAIN heap[e].mappings
    THEN Some(heap[e].mappings[symbol])
    ELSE IF heap[e].parent # 0
         THEN Lookup(heap, heap[e].parent, symbol)
         ELSE None

\* ------------------------------------------------------------------ state
VARIABLES
    interned_symbols,      \* Engine.interned_symbols: name -> id
    akashic_symbol_count,  \* Engine.akashic_symbol_count
    envs,                  \* the Namespaces on the heap; envs[1] is thtdlib
    stack,                 \* active Engine::eval invocations, innermost first
    ret,                   \* value just returned by an invocation, or None
    aborted,               \* the host process stopped without a value
    host,                  \* the calls the host has made so far, and the last one
    out,                   \* what has been written to standard output
    lastInsert,            \* history: the latest insert by the host, define or let_
    fin                    \* history: the frame of the invocation that returned last

vars == << interned_symbols, akashic_symbol_count, envs, stack, ret, aborted,
           host, out, lastInsert, fin >>

\* The symbol-table part of the Engine, as the operators above take it.
Eng == [interned_symbols |-> interned_symbols,
        akashic_symbol_count |-> akashic_symbol_count]

\* The functions add_thtandard_library registers, by position in StdNames.
StdFuncs ==
    << "quote", "define", "lambda_unvariadic", "lambda_variadic", "if_",
       "add", "sub", "mul", "div_floor", "and", "or", "not", "xor",
       "to_string", "prn", "cons", "car", "cdr" >>

\* The value add_thtandard_library binds to the name at position i, whose
\* symbol is sym.
StdValue(i, sym) ==
    IF i <= 5 THEN SpecialForm(StdFuncs[i], sym)
    ELSE IF i <= 18 THEN NativeProcedure(StdFuncs[i], sym)
    ELSE IF i <= 21 THEN Symbol(sym)
    ELSE IF i = 22 THEN String(">>> ")
    ELSE IF i = 23 THEN String("... ")
    ELSE Nil

\* Engine::new: an empty symbol table and an empty parentless thtdlib, filled
\* by add_thtandard_library.
EngineNew ==
    LET eng0 == [interned_symbols |-> [n \in {} |-> 0], akashic_symbol_count |-> 0]
        eng1 == InternAll(eng0, StdNames)
    IN  [eng |-> eng1,
         thtdlib |-> Namespace(
             [k \in {eng1.interned_symbols[StdNames[i]] : i \in 1..Len(StdNames)} |->
                 LET i == CHOOSE j \in 1..Len(StdNames) :
                              eng1.interned_symbols[StdNames[j]] = k
                 IN  StdValue(i, k)],
             0)]

\* The id the reader gave to a name of the program.
Sym(name) == interned_symbols[name]

\* A fresh invocation of Engine::eval(env, expr).  log is history: the calls
\* of eval this invocation has made since eval_rec was entered.
Frame(env, expr) ==
    [kind |-> "eval", env |-> env, expr |-> expr, pc |-> "eval_rec",
     car |-> None, args |-> << >>, evaled |-> << >>,
     arg_env |-> 0, idx |-> 0, sym |-> None, names |-> << >>, log |-> << >>]

NoFrame == [pc |-> "none"]

Init ==
    LET e == EngineNew
        eng == InternAll(e.eng, UserNames)
    IN  /\ interned_symbols = eng.interned_symbols
        /\ akashic_symbol_count = eng.akashic_symbol_count
        /\ envs = << e.thtdlib >>
        /\ stack = << >>
        /\ ret = None
        /\ aborted = FALSE
        /\ host = [news |-> 0, inserts |-> 0, evals |-> 0, env |-> 0, prog |-> None,
                   interns |-> 0, binds |-> 0, last |-> [op |-> "none"]]
        /\ out = << >>
        /\ lastInsert = None
        /\ fin = NoFrame

\* ------------------------------------------------------- printing, checks
\* Engine::write_expr on a Symbol (the only variant the evaluator writes).
WriteExprSymbol(eng, symbol_id) ==
    LET str == GetSymbolStr(eng, symbol_id)
    IN  IF str # None THEN str.it ELSE "<unknown #" \o ToString(symbol_id) \o ">"

RECURSIVE PrintExpr(_, _)
RECURSIVE PrintList(_, _, _)
\* write_list inside Engine::print_expr.
PrintList(eng, car, cdr) ==
    PrintExpr(eng, car) \o
    (IF cdr.tag = "Nil" THEN ""
     ELSE IF cdr.tag = "Pair" THEN " " \o PrintList(eng, cdr.car, cdr.cdr)
     ELSE " . " \o PrintExpr(eng, cdr))

\* Engine::print_expr.
PrintExpr(eng, expr) ==
    CASE expr.tag = "Integer" -> ToString(expr.i)
      [] expr.tag = "Float" -> expr.f
      [] expr.tag = "String" -> expr.s
      [] expr.tag = "Symbol" -> WriteExprSymbol(eng, expr.id)
      [] expr.tag = "Pair" -> "(" \o PrintList(eng, expr.car, expr.cdr) \o ")"
      [] expr.tag = "Nil" -> "()"
      [] expr.tag = "SpecialForm" ->
            LET nm == GetSymbolStr(eng, expr.name)
            IN  IF nm # None THEN "<native func " \o nm.it \o ">"
                ELSE "<anonymous native func>"
      [] expr.tag = "NativeProcedure" ->
            LET nm == GetSymbolStr(eng, expr.name)
            IN  IF nm # None THEN "<native proc " \o nm.it \o ">"
                ELSE "<anonymous native proc>"
      [] expr.tag = "Procedure" -> "<procedure>"

\* Engine::is_truthy.
IsTruthy(eng, expr) ==
    CASE expr.tag = "Nil" -> FALSE
      [] expr.tag = "Symbol" ->
            IF "false" \in DOMAIN eng.interned_symbols
            THEN eng.interned_symbols["false"] # expr.id
            ELSE TRUE
      [] OTHER -> TRUE

\* check_argc: Ok(()) is err = None, Err(e) is err = Some(e).
CheckArgc(eng, args, min, max) ==
    IF ~(min <= Len(args) /\ Len(args) <= max)
    THEN LET msg == IF min = max
                    THEN "expected exactly " \o ToString(min) \o " args but got "
                             \o ToString(Len(args))
                    ELSE "expected between " \o ToString(min) \o " and "
                             \o ToString(max) \o " args but got " \o ToString(Len(args))
             data == ListToSexp(<< Integer(min), Integer(max), Integer(Len(args)) >>)
             e == MakeErr(eng, msg, Some(data))
         IN  [err |-> Some(e.val), eng |-> e.eng]
    ELSE [err |-> None, eng |-> eng]

\* check_min_argc.
CheckMinArgc(eng, args, min) ==
    IF min > Len(args)
    THEN LET msg == "expected " \o ToString(min) \o " args or more but got "
                        \o ToString(Len(args))
             data == ListToSexp(<< Integer(min), Integer(Len(args)) >>)
             e == MakeErr(eng, msg, Some(data))
         IN  [err |-> Some(e.val), eng |-> e.eng]
    ELSE [err |-> None, eng |-> eng]

\* bad_arg_type.
BadArgType(eng, arg, idx, want) ==
    MakeErr(eng, "in argument #" \o ToString(idx) \o ", expected " \o want,
            Some(ListToSexp(<< Integer(idx), String(want), arg >>)))

\* ------------------------------------------------------- native procedures
\* prn: the value returned, the engine state and the text written.
Prn(eng, args) ==
    LET c == CheckArgc(eng, args, 1, 2)
    IN  IF c.err # None
        THEN [val |-> c.err.it, eng |-> c.eng, printed |-> << >>, panic |-> FALSE]
        ELSE LET newline == IF Len(args) >= 2 THEN IsTruthy(eng, args[2]) ELSE TRUE
                 text == PrintExpr(eng, args[1])
             IN  [val |-> args[1], eng |-> eng,
                  printed |-> << IF newline THEN text \o "\n" ELSE text >>,
                  panic |-> FALSE]

RECURSIVE ConcatPrinted(_, _)
\* The loop of to_string: print_expr of every argument, appended in order.
ConcatPrinted(eng, args) ==
    IF args = << >> THEN ""
    ELSE PrintExpr(eng, Head(args)) \o ConcatPrinted(eng, Tail(args))

\* to_string.
ToStringNative(eng, args) ==
    [val |-> String(ConcatPrinted(eng, args)), eng |-> eng, printed |-> << >>,
     panic |-> FALSE]

\* A native procedure returns the value val (an Err(e) comes out as e).
NativeValue(eng, val) ==
    [val |-> val, eng |-> eng, printed |-> << >>, panic |-> FALSE]

\* A native procedure indexes its arguments past their end: the host panics.
NativePanic(eng) ==
    [val |-> Nil, eng |-> eng, printed |-> << >>, panic |-> TRUE]

\* A native procedure returns Err(e) for an error e made by make_err or
\* bad_arg_type.
NativeErr(e) == NativeValue(e.eng, e.val)

\* engine.make_err(kind, msg, data), the form strings.rs calls: the tagged
\* list of the message and the payload.
MakeErrKind(eng, kind, msg, data) == MakeErr(eng, msg, data)

\* string_len.
StringLen(eng, args) ==
    LET c == CheckArgc(eng, args, 1, 1)
    IN  IF c.err # None THEN NativeValue(c.eng, c.err.it)
        ELSE IF args[1].tag = "String"
        THEN NativeValue(eng, Integer(Len(args[1].s)))
        ELSE NativeErr(BadArgType(eng, args[1], 0, "string"))

\* string_slice from the bounds start and end on: the checks and the slice.
\* The strings of this model are ASCII: an index is on a char boundary
\* exactly when it is not beyond the length.
SliceChecked(eng, args, string, start, end) ==
    LET len == Len(string)
        too_far == IF start >= len THEN Some(start)
                   ELSE IF end >= len THEN Some(end)
                   ELSE None
    IN  IF start > len
        THEN NativeErr(MakeErrKind(eng, "string/slice-boundary",
                 ToString(start) \o " is not on a char boundary", None))
        ELSE IF end > len
        THEN NativeErr(MakeErrKind(eng, "string/slice-boundary",
                 ToString(end) \o " is not on a char boundary", None))
        ELSE IF start > end
        THEN NativeErr(MakeErrKind(eng, "string/slice-out-of-order",
                 "the start " \o ToString(start) \o " was after the end "
                     \o ToString(end),
                 Some(ListToSexp(<< Integer(start), Integer(end) >>))))
        ELSE IF too_far # None
        THEN NativeErr(MakeErrKind(eng, "string/slice-too-far",
                 ToString(too_far.it) \o " was out of bounds (string had len "
                     \o ToString(len) \o ")",
                 Some(ListToSexp(<< Integer(too_far.it), Integer(len) >>))))
        ELSE NativeValue(eng, String(SubSeq(string, start + 1, end)))

\* string_slice: args[2] is read whether or not it is there.
StringSlice(eng, args) ==
    LET c == CheckArgc(eng, args, 2, 3)
        start == args[2]
        end == args[3]
        startOk == (start.tag = "Integer" /\ start.i >= 0) \/ ~IsTruthy(eng, start)
        endOk == (end.tag = "Integer" /\ end.i >= 0) \/ ~IsTruthy(eng, end)
    IN  IF c.err # None THEN NativeValue(c.eng, c.err.it)
        ELSE IF args[1].tag # "String"
        THEN NativeErr(BadArgType(eng, args[1], 0, "string"))
        ELSE IF ~startOk
        THEN NativeErr(BadArgType(eng, start, 1, "positive int or falsy"))
        ELSE IF Len(args) < 3
        THEN NativePanic(eng)
        ELSE IF ~endOk
        THEN NativeErr(BadArgType(eng, end, 2, "positive int or falsy"))
        ELSE SliceChecked(eng, args, args[1].s,
                          IF start.tag = "Integer" /\ start.i >= 0 THEN start.i ELSE 0,
                          IF end.tag = "Integer" /\ end.i >= 0 THEN end.i
                          ELSE Len(args[1].s))

\* haystack.find(needle): the first index at which needle starts, if any.
Find(haystack, needle) ==
    LET at == { i \in 0..(Len(haystack) - Len(needle)) :
                  SubSeq(haystack, i + 1, i + Len(needle)) = needle }
    IN  IF at = {} THEN None
        ELSE Some(CHOOSE i \in at : \A j \in at : i <= j)

\* string_find: args[0] and args[1] are read without a check of the count.
StringFind(eng, args) ==
    IF Len(args) < 1 THEN NativePanic(eng)
    ELSE IF args[1].tag # "String"
    THEN NativeErr(BadArgType(eng, args[1], 0, "string"))
    ELSE IF Len(args) < 2 THEN NativePanic(eng)
    ELSE IF args[2].tag # "String"
    THEN NativeErr(BadArgType(eng, args[2], 1, "string"))
    ELSE LET idx == Find(args[2].s, args[1].s)
             f == InternSymbol(eng, "false")
         IN  IF idx # None THEN NativeValue(eng, Integer(idx.it))
             ELSE NativeValue(f.eng, Symbol(f.id))

\* The native procedures of this model, by the name of their function.
NativeFuncs == {"prn", "to_string", "string_len", "string_slice", "string_find"}

\* The call func(self, &evaled_args) of a NativeProcedure.
CallNative(eng, fn, args) ==
    CASE fn = "prn" -> Prn(eng, args)
      [] fn = "to_string" -> ToStringNative(eng, args)
      [] fn = "string_len" -> StringLen(eng, args)
      [] fn = "string_slice" -> StringSlice(eng, args)
      [] fn = "string_find" -> StringFind(eng, args)

\* ------------------------------------------------------------ destructuring
RECURSIVE WriteExpr(_, _)
RECURSIVE WriteList(_, _, _)
\* write_list inside Engine::write_expr.
WriteList(eng, car, cdr) ==
    WriteExpr(eng, car) \o
    (IF cdr.tag = "Nil" THEN ""
     ELSE IF cdr.tag = "Pair" THEN " " \o WriteList(eng, cdr.car, cdr.cdr)
     ELSE " . " \o WriteExpr(eng, cdr))

\* Engine::write_expr, on the variants the binder of this model is given
\* (no Procedure).  A String is written quoted.
WriteExpr(eng, expr) ==
    CASE expr.tag = "Integer" -> ToString(expr.i)
      [] expr.tag = "Float" -> expr.f
      [] expr.tag = "Symbol" -> WriteExprSymbol(eng, expr.id)
      [] expr.tag = "Pair" -> "(" \o WriteList(eng, expr.car, expr.cdr) \o ")"
      [] expr.tag = "Nil" -> "()"
      [] expr.tag = "String" -> "\"" \o expr.s \o "\""
      [] expr.tag = "SpecialForm" ->
            LET nm == GetSymbolStr(eng, expr.name)
            IN  IF nm # None THEN "<special form " \o nm.it \o ">"
                ELSE "<anonymous special form>"
      [] expr.tag = "NativeProcedure" ->
            LET nm == GetSymbolStr(eng, expr.name)
            IN  IF nm # None THEN "<native proc " \o nm.it \o ">"
                ELSE "<anonymous native proc>"

\* The equality `spec == val` of two expressions: structural.
ExprEq(a, b) == a = b

\* What a call of recurse or recurse_opt gives back: Ok(map) or Err(err),
\* the engine state after it, the lines it wrote to standard output, and
\* (history) the match steps made, each with its pattern, its value or None
\* for "no value", and its outcome.
BindOk(eng, map) ==
    [ok |-> TRUE, map |-> map, err |-> None, eng |-> eng,
     printed |-> << >>, steps |-> << >>]

\* Err(engine.make_err(kind, msg, data)).
BindErr(eng, kind, msg, data) ==
    [ok |-> FALSE, map |-> EmptyMap,
     err |-> Some([kind |-> kind, msg |-> msg, data |-> data]), eng |-> eng,
     printed |-> << >>, steps |-> << >>]

\* out.extend(a?); out.extend(b?); Ok(out): the first failure is returned,
\* else the union in which b's bindings replace a's.
Extend(a, b) ==
    IF ~a.ok THEN a
    ELSE IF ~b.ok
    THEN [b EXCEPT !.printed = a.printed \o @, !.steps = a.steps \o @]
    ELSE [b EXCEPT !.map = b.map @@ a.map,
                   !.printed = a.printed \o @, !.steps = a.steps \o @]

RECURSIVE Recurse(_, _, _)

\* recurse_opt that takes "no value" for a match without bindings.
RecurseOptLenient(eng, spec, val) ==
    LET default_sym == InternSymbol(eng, "default")
    IN  IF val # None
        THEN Recurse(default_sym.eng, spec, val.it)
        ELSE [BindOk(default_sym.eng, EmptyMap)
                EXCEPT !.steps = << [spec |-> spec, val |-> None, ok |-> TRUE,
                                     map |-> EmptyMap] >>]

\* recurse_opt of destructure_assign.
RecurseOpt(eng, spec, val) ==
    LET default_sym == InternSymbol(eng, "default")
    IN  IF val # None
        THEN Recurse(default_sym.eng, spec, val.it)
        ELSE [BindErr(default_sym.eng, "assignment/no-default",
                      "lack of value with no default", None)
                EXCEPT !.steps = << [spec |-> spec, val |-> None, ok |-> FALSE,
                                     map |-> EmptyMap] >>]

\* The arm for two pairs with the bindings of the car left out.
MatchPairsCdrOnly(eng, spec, val) ==
    LET a == Recurse(eng, spec.car, val.car)
        b == Recurse(a.eng, spec.cdr, val.cdr)
    IN  Extend([a EXCEPT !.map = EmptyMap], b)

\* recurse, the arm for a pattern and a value that are both pairs.
MatchPairs(eng, spec, val) ==
    LET a == Recurse(eng, spec.car, val.car)
        b == Recurse(a.eng, spec.cdr, val.cdr)
    IN  Extend(a, b)

\* recurse, the arm for a pair pattern and a Nil value: no more values.
MatchNoMore(eng, spec, val) ==
    LET a == RecurseOpt(eng, spec.car, None)
        b == RecurseOpt(a.eng, spec.cdr, None)
    IN  Extend(a, b)

\* The last two arms with the end of a pattern matching whatever is left of
\* the value.
FallbackIgnoresRest(eng, spec, val) ==
    IF ExprEq(spec, val) \/ spec.tag = "Nil"
    THEN BindOk(eng, EmptyMap)
    ELSE BindErr(eng, "assignment/invalid",
                 "cannot bind " \o WriteExpr(eng, val) \o " to "
                     \o WriteExpr(eng, spec),
                 Some(ListToSexp(<< spec, val >>)))

\* The last arm alone: equal expressions do not match either.
FallbackNever(eng, spec, val) ==
    BindErr(eng, "assignment/invalid",
            "cannot bind " \o WriteExpr(eng, val) \o " to " \o WriteExpr(eng, spec),
            Some(ListToSexp(<< spec, val >>)))

\* recurse, the last two arms: equal expressions match without bindings,
\* anything else cannot be bound.
Fallback(eng, spec, val) ==
    IF ExprEq(spec, val)
    THEN BindOk(eng, EmptyMap)
    ELSE BindErr(eng, "assignment/invalid",
                 "cannot bind " \o WriteExpr(eng, val) \o " to "
                     \o WriteExpr(eng, spec),
                 Some(ListToSexp(<< spec, val >>)))

\* recurse of destructure_assign.  The value graph of this model has no
\* Map, so the arm for two maps is never taken.
Recurse(eng, spec, val) ==
    LET underscore == InternSymbol(eng, "_")
        e == underscore.eng
        line == WriteExpr(e, spec) \o " <- " \o WriteExpr(e, val) \o "\n"
        r == CASE spec.tag = "Symbol" /\ spec.id = underscore.id ->
                      BindOk(e, EmptyMap)
               [] spec.tag = "Symbol" /\ spec.id # underscore.id ->
                      BindOk(e, spec.id :> val)
               [] spec.tag = "Pair" /\ val.tag = "Pair" -> MatchPairs(e, spec, val)
               [] spec.tag = "Pair" /\ val.tag = "Nil" -> MatchNoMore(e, spec, val)
               [] OTHER -> Fallback(e, spec, val)
    IN  [r EXCEPT !.printed = << line >> \o @,
                  !.steps = << [spec |-> spec, val |-> Some(val), ok |-> r.ok,
                                map |-> r.map] >> \o @]

\* Engine::destructure_assign.
DestructureAssign(eng, spec, val) == Recurse(eng, spec, val)

\* -------------------------------------------------- procedure application
RECURSIVE BindArgsStrict(_, _, _, _, _, _)
\* The loop with a call of more operands than parameters counted as one that
\* ran out of them.
BindArgsStrict(heap, arg_env, arg_names, variadic, passed, idx) ==
    IF idx >= Len(arg_names)
    THEN [heap |-> heap,
          short |-> IF ~variadic /\ Len(passed) > Len(arg_names)
                    THEN Some(idx) ELSE None,
          panic |-> FALSE]
    ELSE IF variadic /\ idx = Len(arg_names) - 1
    THEN IF idx > Len(passed)
         THEN [heap |-> heap, short |-> None, panic |-> TRUE]
         ELSE BindArgsStrict(Insert(heap, arg_env, arg_names[idx + 1],
                                    ListToSexp(SubSeq(passed, idx + 1, Len(passed)))),
                             arg_env, arg_names, variadic, passed, idx + 1)
    ELSE IF idx < Len(passed)
    THEN BindArgsStrict(Insert(heap, arg_env, arg_names[idx + 1], passed[idx + 1]),
                        arg_env, arg_names, variadic, passed, idx + 1)
    ELSE [heap |-> heap, short |-> Some(idx), panic |-> FALSE]

RECURSIVE BindArgsTrailOffByOne(_, _, _, _, _, _)
\* The loop with the trailing list taken from one position too far.
BindArgsTrailOffByOne(heap, arg_env, arg_names, variadic, passed, idx) ==
    IF idx >= Len(arg_names)
    THEN [heap |-> heap, short |-> None, panic |-> FALSE]
    ELSE IF variadic /\ idx = Len(arg_names) - 1
    THEN BindArgsTrailOffByOne(
             Insert(heap, arg_env, arg_names[idx + 1],
                    ListToSexp(IF idx + 2 <= Len(passed)
                               THEN SubSeq(passed, idx + 2, Len(passed))
                               ELSE << >>)),
             arg_env, arg_names, variadic, passed, idx + 1)
    ELSE IF idx < Len(passed)
    THEN BindArgsTrailOffByOne(
             Insert(heap, arg_env, arg_names[idx + 1], passed[idx + 1]),
             arg_env, arg_names, variadic, passed, idx + 1)
    ELSE [heap |-> heap, short |-> Some(idx), panic |-> FALSE]

RECURSIVE BindArgs(_, _, _, _, _, _)
\* The loop over arg_names of eval_rec, from position idx (counted from 0)
\* on: the heap after the inserts into arg_env, and the position at which
\* the call ran out of arguments, if it did.
BindArgs(heap, arg_env, arg_names, variadic, passed, idx) ==
    IF idx >= Len(arg_names)
    THEN [heap |-> heap, short |-> None, panic |-> FALSE]
    ELSE IF variadic /\ idx = Len(arg_names) - 1
    THEN IF idx > Len(passed)
         THEN [heap |-> heap, short |-> None, panic |-> TRUE]
         ELSE BindArgs(Insert(heap, arg_env, arg_names[idx + 1],
                              ListToSexp(SubSeq(passed, idx + 1, Len(passed)))),
                       arg_env, arg_names, variadic, passed, idx + 1)
    ELSE IF idx < Len(passed)
    THEN BindArgs(Insert(heap, arg_env, arg_names[idx + 1], passed[idx + 1]),
                  arg_env, arg_names, variadic, passed, idx + 1)
    ELSE [heap |-> heap, short |-> Some(idx), panic |-> FALSE]

\* The payload with the two counts the wrong way round.
ArityDataSwapped(n, truth, idx) ==
    ListToSexp(<< Integer(idx), Symbol(truth), Integer(n) >>)

\* The payload of the arity error: (declared, variadic, got).
ArityData(n, truth, idx) ==
    ListToSexp(<< Integer(n), Symbol(truth), Integer(idx) >>)

\* The arity error of eval_rec for a call that ran out of arguments at idx.
ArityErr(eng, arg_names, variadic, idx) ==
    LET message == "application: expected " \o ToString(Len(arg_names))
                       \o (IF variadic THEN " or more" ELSE "")
                       \o " args but only got " \o ToString(idx)
        truth == InternSymbol(eng, IF variadic THEN "true" ELSE "false")
    IN  MakeErr(truth.eng, message,
                Some(ArityData(Len(arg_names), truth.id, idx)))

\* ------------------------------------------------------------ step helpers
Top == Head(stack)

\* The innermost invocation is at position p and no value is in flight to it.
At(p) == ~aborted /\ stack # << >> /\ Top.pc = p /\ ret = None

\* A value has just come back to the innermost invocation, which is at p.
Back(p) == ~aborted /\ stack # << >> /\ Top.pc = p /\ ret # None

\* The innermost invocation returns val to its caller.
Returns(val) ==
    /\ stack' = Tail(stack)
    /\ ret' = val
    /\ fin' = Top

\* The innermost invocation, now in state f, calls self.eval(env, expr).
Calls(f, env, expr) ==
    /\ stack' = << Frame(env, expr) >>
                  \o << [f EXCEPT !.log = Append(@, [env |-> env, expr |-> expr])] >>
                  \o Tail(stack)
    /\ ret' = None
    /\ UNCHANGED fin

\* The innermost invocation goes on as f.
Becomes(f) ==
    /\ stack' = << f >> \o Tail(stack)
    /\ ret' = None
    /\ UNCHANGED fin

SetEng(eng) ==
    /\ interned_symbols' = eng.interned_symbols
    /\ akashic_symbol_count' = eng.akashic_symbol_count

\* ---------------------------------------------------------------- eval_rec
\* The variants the first arm of eval_rec passes through.
SelfEvaluating ==
    {"Integer", "Nil", "String", "SpecialForm", "NativeProcedure", "Procedure"}

\* eval_rec, arm 1: pass literals through unchanged.
EvalLiteral ==
    /\ At("eval_rec")
    /\ Top.expr.tag \in SelfEvaluating
    /\ Returns(Top.expr)
    /\ UNCHANGED << interned_symbols, akashic_symbol_count, envs, aborted,
                    host, out, lastInsert >>

\* eval_rec has no arm for Expr::Float: the match yields no value.
EvalNoArm ==
    /\ At("eval_rec")
    /\ Top.expr.tag \notin SelfEvaluating \cup {"Symbol", "Pair"}
    /\ aborted' = TRUE
    /\ UNCHANGED << interned_symbols, akashic_symbol_count, envs, stack, ret,
                    host, out, lastInsert, fin >>

\* eval_rec, arm 2: look the symbol up.
EvalSymbol ==
    /\ At("eval_rec")
    /\ Top.expr.tag = "Symbol"
    /\ LET idx == Lookup(envs, Top.env, Top.expr.id)
           err == MakeErr(Eng,
                          "application: '" \o WriteExprSymbol(Eng, Top.expr.id)
                              \o " is undefined",
                          Some(Top.expr))
       IN  IF idx # None
           THEN Returns(idx.it) /\ UNCHANGED << interned_symbols, akashic_symbol_count >>
           ELSE Returns(err.val) /\ SetEng(err.eng)
    /\ UNCHANGED << envs, aborted, host, out, lastInsert >>

\* eval_rec, arm 3: evaluate the car of the pair with a nested eval.
EvalPair ==
    /\ At("eval_rec")
    /\ Top.expr.tag = "Pair"
    /\ Calls([Top EXCEPT !.pc = "car"], Top.env, Top.expr.car)
    /\ UNCHANGED << interned_symbols, akashic_symbol_count, envs, aborted,
                    host, out, lastInsert >>

\* The operator has been evaluated, the cdr is not a proper list.
ApplyImproper ==
    /\ Back("car")
    /\ SexpToList(Top.expr.cdr) = None
    /\ LET err == MakeErr(Eng, "application: cdr must be a proper list",
                          Some(Top.expr.cdr))
       IN  Returns(err.val) /\ SetEng(err.eng)
    /\ UNCHANGED << envs, aborted, host, out, lastInsert >>

\* The operator is a NativeProcedure: go on to evaluate the operands.
ApplyNative ==
    /\ Back("car")
    /\ SexpToList(Top.expr.cdr) # None
    /\ ret.tag = "NativeProcedure"
    /\ Becomes([Top EXCEPT !.pc = "nargs", !.car = ret,
                           !.args = SexpToList(Top.expr.cdr).it])
    /\ UNCHANGED << interned_symbols, akashic_symbol_count, envs, aborted,
                    host, out, lastInsert >>

\* arg_env made a child of the environment of the call.
ApplyProcedureDynamic ==
    /\ Back("car")
    /\ SexpToList(Top.expr.cdr) # None
    /\ ret.tag = "Procedure"
    /\ Len(envs) < MaxEnvs
    /\ envs' = Append(envs, NamespaceNew(Top.env))
    /\ Becomes([Top EXCEPT !.pc = "pargs", !.car = ret,
                           !.args = SexpToList(Top.expr.cdr).it,
                           !.arg_env = Len(envs) + 1])
    /\ UNCHANGED << interned_symbols, akashic_symbol_count, aborted,
                    host, out, lastInsert >>

\* The operator is a Procedure: make arg_env, a child of the closure's
\* environment, and go on to evaluate the operands.
ApplyProcedure ==
    /\ Back("car")
    /\ SexpToList(Top.expr.cdr) # None
    /\ ret.tag = "Procedure"
    /\ Len(envs) < MaxEnvs
    /\ envs' = Append(envs, NamespaceNew(ret.env))
    /\ Becomes([Top EXCEPT !.pc = "pargs", !.car = ret,
                           !.args = SexpToList(Top.expr.cdr).it,
                           !.arg_env = Len(envs) + 1])
    /\ UNCHANGED << interned_symbols, akashic_symbol_count, aborted,
                    host, out, lastInsert >>

\* The error made with the operator as written, not its value.
ApplyNotProcedureUnevaluated ==
    /\ Back("car")
    /\ SexpToList(Top.expr.cdr) # None
    /\ ret.tag \notin {"SpecialForm", "NativeProcedure", "Procedure"}
    /\ LET err == MakeErr(Eng, "application: not a procedure", Some(Top.expr.car))
       IN  Returns(err.val) /\ SetEng(err.eng)
    /\ UNCHANGED << envs, aborted, host, out, lastInsert >>

\* The operator is nothing that can be applied.
ApplyNotProcedure ==
    /\ Back("car")
    /\ SexpToList(Top.expr.cdr) # None
    /\ ret.tag \notin {"SpecialForm", "NativeProcedure", "Procedure"}
    /\ LET err == MakeErr(Eng, "application: not a procedure", Some(ret))
       IN  Returns(err.val) /\ SetEng(err.eng)
    /\ UNCHANGED << envs, aborted, host, out, lastInsert >>

\* The operands taken from the right.
EvalOperandReversed ==
    /\ \/ At("nargs")
       \/ At("pargs")
    /\ Len(Top.evaled) < Len(Top.args)
    /\ Calls(Top, Top.env, Top.args[Len(Top.args) - Len(Top.evaled)])
    /\ UNCHANGED << interned_symbols, akashic_symbol_count, envs, aborted,
                    host, out, lastInsert >>

\* The next operand of a native or procedure call is evaluated in the
\* environment of the call.
EvalOperand ==
    /\ \/ At("nargs")
       \/ At("pargs")
    /\ Len(Top.evaled) < Len(Top.args)
    /\ Calls(Top, Top.env, Top.args[Len(Top.evaled) + 1])
    /\ UNCHANGED << interned_symbols, akashic_symbol_count, envs, aborted,
                    host, out, lastInsert >>

\* The value of an operand is collected.
CollectOperand ==
    /\ \/ Back("nargs")
       \/ Back("pargs")
    /\ Becomes([Top EXCEPT !.evaled = Append(@, ret)])
    /\ UNCHANGED << interned_symbols, akashic_symbol_count, envs, aborted,
                    host, out, lastInsert >>

\* All operands are evaluated: the native function is called.
CallNativeProcedure ==
    /\ At("nargs")
    /\ Len(Top.evaled) = Len(Top.args)
    /\ Top.car.nfunc \in NativeFuncs
    /\ LET r == CallNative(Eng, Top.car.nfunc, Top.evaled)
       IN  IF r.panic
           THEN /\ aborted' = TRUE
                /\ UNCHANGED << interned_symbols, akashic_symbol_count, stack,
                                ret, out, fin >>
           ELSE /\ Returns(r.val)
                /\ SetEng(r.eng)
                /\ out' = out \o r.printed
                /\ UNCHANGED aborted
    /\ UNCHANGED << envs, host, lastInsert >>

\* All operands are evaluated: the parameters are bound in arg_env.
BindParameters ==
    /\ At("pargs")
    /\ Len(Top.evaled) = Len(Top.args)
    /\ LET proc == Top.car
           b == BindArgs(envs, Top.arg_env, proc.args, proc.variadic, Top.evaled, 0)
           arity == ArityErr(Eng, proc.args, proc.variadic, b.short.it)
           nobody == MakeErr(Eng, "application: had a procedure with no body sexprs",
                             None)
       IN  /\ envs' = b.heap
           /\ IF b.panic
              THEN /\ aborted' = TRUE
                   /\ UNCHANGED << interned_symbols, akashic_symbol_count,
                                   stack, ret, fin >>
              ELSE IF b.short # None
              THEN Returns(arity.val) /\ SetEng(arity.eng) /\ UNCHANGED aborted
              ELSE IF proc.body = << >>
              THEN Returns(nobody.val) /\ SetEng(nobody.eng) /\ UNCHANGED aborted
              ELSE /\ Becomes([Top EXCEPT !.pc = "body", !.idx = 1])
                   /\ UNCHANGED << interned_symbols, akashic_symbol_count, aborted >>
    /\ UNCHANGED << host, out, lastInsert >>

\* A body expression before the last is evaluated in arg_env.
EvalBody ==
    /\ At("body")
    /\ Top.idx < Len(Top.car.body)
    /\ Calls(Top, Top.arg_env, Top.car.body[Top.idx])
    /\ UNCHANGED << interned_symbols, akashic_symbol_count, envs, aborted,
                    host, out, lastInsert >>

\* Its value is dropped.
DropBody ==
    /\ Back("body")
    /\ Becomes([Top EXCEPT !.idx = @ + 1])
    /\ UNCHANGED << interned_symbols, akashic_symbol_count, envs, aborted,
                    host, out, lastInsert >>

\* The last body expression evaluated by a nested call of eval.
TailCallNested ==
    /\ At("body")
    /\ Top.idx = Len(Top.car.body)
    /\ Calls([Top EXCEPT !.pc = "tail"], Top.arg_env, Top.car.body[Top.idx])
    /\ UNCHANGED << interned_symbols, akashic_symbol_count, envs, aborted,
                    host, out, lastInsert >>

\* The last body expression: eval_rec returns Err(TailRec(tail, arg_env)) and
\* the loop of eval goes on with them in the same invocation.
TailCall ==
    /\ At("body")
    /\ Top.idx = Len(Top.car.body)
    /\ Becomes(Frame(Top.arg_env, Top.car.body[Top.idx]))
    /\ UNCHANGED << interned_symbols, akashic_symbol_count, envs, aborted,
                    host, out, lastInsert >>

\* ----------------------------------------------------------- special forms
\* The operator is the SpecialForm fn and the cdr is a proper list.
BackForm(fns) ==
    /\ Back("car")
    /\ SexpToList(Top.expr.cdr) # None
    /\ ret.tag = "SpecialForm"
    /\ ret.func \in fns

\* define and define_macro: define_internals up to its call of eval, or to
\* its return.
Define ==
    /\ BackForm({"define", "define_macro"})
    /\ LET args == SexpToList(Top.expr.cdr).it
           is_lambda == ret.func = "define"
           m == CheckMinArgc(Eng, args, 2)
           first == args[1]
           c == CheckArgc(Eng, args, 2, 2)
           lambda_name == InternSymbol(Eng, IF is_lambda THEN "lambda" ELSE "macro")
           lambda_list == << Symbol(lambda_name.id), first.cdr >>
                              \o SubSeq(args, 2, Len(args))
           lambda_sexpr == ListToSexp(lambda_list)
           bad_pair == BadArgType(lambda_name.eng, first, 0, "(symbol, any)")
           define_name == InternSymbol(lambda_name.eng, "define")
           define_list == << Symbol(define_name.id), first.car, lambda_sexpr >>
           bad_first == BadArgType(Eng, args[1], 0, "symbol")
       IN  IF m.err # None
           THEN Returns(m.err.it) /\ SetEng(m.eng)
           ELSE IF first.tag = "Symbol"
           THEN IF c.err # None
                THEN Returns(c.err.it) /\ SetEng(c.eng)
                ELSE /\ Calls([Top EXCEPT !.pc = "define", !.car = ret, !.args = args],
                              Top.env, args[2])
                     /\ UNCHANGED << interned_symbols, akashic_symbol_count >>
           ELSE IF first.tag = "Pair"
           THEN IF first.car.tag # "Symbol"
                THEN Returns(bad_pair.val) /\ SetEng(bad_pair.eng)
                ELSE /\ Becomes(Frame(Top.env, ListToSexp(define_list)))
                     /\ SetEng(define_name.eng)
           ELSE Returns(bad_first.val) /\ SetEng(bad_first.eng)
    /\ UNCHANGED << envs, aborted, host, out, lastInsert >>

\* define_internals after eval: the value is inserted in the environment of
\* the call and the form exits with Nil.
DefineInsert ==
    /\ Back("define")
    /\ envs' = Insert(envs, Top.env, Top.args[1].id, ret)
    /\ lastInsert' = [env |-> Top.env, symbol |-> Top.args[1].id, target |-> ret]
    /\ Returns(Nil)
    /\ UNCHANGED << interned_symbols, akashic_symbol_count, aborted, host, out >>

\* let_ up to its loop over the bindings.
Let ==
    /\ BackForm({"let_"})
    /\ Len(envs) < MaxEnvs
    /\ envs' = Append(envs, NamespaceNew(Top.env))
    /\ LET inner_env == Len(envs) + 1
           args0 == SexpToList(Top.expr.cdr).it
           named == Len(args0) >= 1 /\ args0[1].tag = "Symbol"
           symbol == IF named THEN Some(args0[1].id) ELSE None
           args == IF named THEN Tail(args0) ELSE args0
           ono == CheckMinArgc(Eng, args, 2)
           bad == BadArgType(Eng, args[1], 0, "list of (symbol expr)")
       IN  IF ono.err # None
           THEN Returns(ono.err.it) /\ SetEng(ono.eng)
           ELSE IF SexpToList(args[1]) = None
           THEN Returns(bad.val) /\ SetEng(bad.eng)
           ELSE /\ Becomes([Top EXCEPT !.pc = "let_bind", !.car = ret, !.args = args,
                                       !.arg_env = inner_env, !.sym = symbol,
                                       !.idx = 1])
                /\ UNCHANGED << interned_symbols, akashic_symbol_count >>
    /\ UNCHANGED << aborted, host, out, lastInsert >>

\* The bindings of the let_ the innermost invocation is in.
LetBindings == SexpToList(Top.args[1]).it

\* let_, one round of the loop over the bindings up to its call of eval.
LetBind ==
    /\ At("let_bind")
    /\ Top.idx <= Len(LetBindings)
    /\ LET pair == SexpToList(LetBindings[Top.idx])
           bad == BadArgType(Eng, Top.args[1], 0, "list of (symbol expr)")
       IN  IF pair # None /\ Len(pair.it) = 2 /\ pair.it[1].tag = "Symbol"
           THEN /\ Calls(Top, Top.arg_env, pair.it[2])
                /\ UNCHANGED << interned_symbols, akashic_symbol_count >>
           ELSE Returns(bad.val) /\ SetEng(bad.eng)
    /\ UNCHANGED << envs, aborted, host, out, lastInsert >>

\* let_, the rest of the round: the value is inserted in inner_env.
LetInsert ==
    /\ Back("let_bind")
    /\ LET id == SexpToList(LetBindings[Top.idx]).it[1].id
       IN  /\ envs' = Insert(envs, Top.arg_env, id, ret)
           /\ lastInsert' = [env |-> Top.arg_env, symbol |-> id, target |-> ret]
           /\ Becomes([Top EXCEPT !.names = Append(@, id),
                                  !.evaled = Append(@, ret),
                                  !.idx = @ + 1])
    /\ UNCHANGED << interned_symbols, akashic_symbol_count, aborted, host, out >>

\* let_ after the loop, with a name: the procedure is made in a new scope,
\* bound there to the name, and applied to the values.
LetNamed ==
    /\ At("let_bind")
    /\ Top.idx > Len(LetBindings)
    /\ Top.sym # None
    /\ Len(envs) < MaxEnvs
    /\ LET scope == Len(envs) + 1
           lambda == Procedure(Top.names, SubSeq(Top.args, 2, Len(Top.args)),
                               scope, FALSE)
       IN  /\ envs' = Insert(Append(envs, NamespaceNew(Top.env)), scope,
                             Top.sym.it, lambda)
           /\ stack' = << [Frame(scope, ListToSexp(<< lambda,
                                                      ListToSexp(Top.evaled) >>))
                             EXCEPT !.kind = "apply", !.pc = "apply"] >>
                         \o << [Top EXCEPT !.pc = "let_apply"] >> \o Tail(stack)
           /\ ret' = None
           /\ lastInsert' = [env |-> scope, symbol |-> Top.sym.it, target |-> lambda]
    /\ UNCHANGED << interned_symbols, akashic_symbol_count, aborted,
                    host, out, fin >>

\* let_ after the loop, without a name: on to the body.
LetBody ==
    /\ At("let_bind")
    /\ Top.idx > Len(LetBindings)
    /\ Top.sym = None
    /\ Becomes([Top EXCEPT !.pc = "let_body", !.idx = 2])
    /\ UNCHANGED << interned_symbols, akashic_symbol_count, envs, aborted,
                    host, out, lastInsert >>

\* A body expression of let_ before the last is evaluated in inner_env.
LetEvalBody ==
    /\ At("let_body")
    /\ Top.idx < Len(Top.args)
    /\ Calls(Top, Top.arg_env, Top.args[Top.idx])
    /\ UNCHANGED << interned_symbols, akashic_symbol_count, envs, aborted,
                    host, out, lastInsert >>

\* Its value is dropped.
LetDropBody ==
    /\ Back("let_body")
    /\ Becomes([Top EXCEPT !.idx = @ + 1])
    /\ UNCHANGED << interned_symbols, akashic_symbol_count, envs, aborted,
                    host, out, lastInsert >>

\* The last body expression of let_ is a tail call in inner_env.
LetTail ==
    /\ At("let_body")
    /\ Top.idx = Len(Top.args)
    /\ Becomes(Frame(Top.arg_env, Top.args[Top.idx]))
    /\ UNCHANGED << interned_symbols, akashic_symbol_count, envs, aborted,
                    host, out, lastInsert >>

\* The named let_ exits with the value of apply.
LetExit ==
    /\ Back("let_apply")
    /\ Returns(ret)
    /\ UNCHANGED << interned_symbols, akashic_symbol_count, envs, aborted,
                    host, out, lastInsert >>

\* apply(engine, env, [procedure, list]): the procedure is applied to the
\* elements of the list as its evaluated arguments.
Apply ==
    /\ At("apply")
    /\ Len(envs) < MaxEnvs
    /\ LET proc == Top.expr.car
           vals == SexpToList(Top.expr.cdr.car).it
           arg_env == Len(envs) + 1
           b == BindArgs(Append(envs, NamespaceNew(proc.env)), arg_env,
                         proc.args, proc.variadic, vals, 0)
           arity == ArityErr(Eng, proc.args, proc.variadic, b.short.it)
       IN  /\ envs' = b.heap
           /\ IF b.short # None
              THEN Returns(arity.val) /\ SetEng(arity.eng)
              ELSE /\ Becomes([Top EXCEPT !.pc = "body", !.car = proc,
                                          !.arg_env = arg_env, !.idx = 1])
                   /\ UNCHANGED << interned_symbols, akashic_symbol_count >>
    /\ UNCHANGED << aborted, host, out, lastInsert >>

\* lambda and lambda*: a Procedure over the parameter symbols and the body,
\* closed over the environment of the call.
Lambda ==
    /\ BackForm({"lambda_unvariadic", "lambda_variadic"})
    /\ LET args == SexpToList(Top.expr.cdr).it
           m == CheckMinArgc(Eng, args, 1)
           params == SexpToList(args[1])
           bad == BadArgType(Eng, args[1], 0, "list of symbols")
       IN  IF m.err # None
           THEN Returns(m.err.it) /\ SetEng(m.eng)
           ELSE IF params = None
                   \/ \E i \in 1..Len(params.it) : params.it[i].tag # "Symbol"
           THEN Returns(bad.val) /\ SetEng(bad.eng)
           ELSE /\ Returns(Procedure([i \in 1..Len(params.it) |-> params.it[i].id],
                                     SubSeq(args, 2, Len(args)), Top.env,
                                     ret.func = "lambda_variadic"))
                /\ UNCHANGED << interned_symbols, akashic_symbol_count >>
    /\ UNCHANGED << envs, aborted, host, out, lastInsert >>

\* ------------------------------------------------------------ the programs
X == Symbol(Sym("x"))
Y == Symbol(Sym("y"))
F == Symbol(Sym("f"))

\* The form (a b ...).
Form(list) == ListToSexp(list)

DefineForm == SpecialForm("define", Sym("define"))
DefineMacroForm == SpecialForm("define_macro", Sym("define"))
LetForm == SpecialForm("let_", Sym("let"))
PrnProc == NativeProcedure("prn", Sym("prn"))

StringLenProc == NativeProcedure("string_len", Sym("string"))
StringSliceProc == NativeProcedure("string_slice", Sym("string"))
StringFindProc == NativeProcedure("string_find", Sym("string"))

\* Calls of the string functions of strings.rs.
StringPrograms ==
    { Form(<< StringLenProc, String("abc") >>),
      Form(<< StringLenProc >>),
      Form(<< StringLenProc, Integer(1) >>),
      Form(<< StringSliceProc, String("abc"), Integer(0), Integer(2) >>),
      Form(<< StringSliceProc, String("abc"), Integer(1) >>),
      Form(<< StringSliceProc, String("abc"), Nil, Nil >>),
      Form(<< StringSliceProc, String("abc") >>),
      Form(<< StringSliceProc, Integer(1), Integer(2), Integer(3) >>),
      Form(<< StringSliceProc, String("abc"), String("a"), Integer(3) >>),
      Form(<< StringSliceProc, String("abc"), Integer(1), String("a") >>),
      Form(<< StringSliceProc, String("abc"), Integer(2), Integer(1) >>),
      Form(<< StringSliceProc, String("abc"), Integer(4), Integer(5) >>),
      Form(<< StringSliceProc, String("abc"), Integer(1), Integer(5) >>),
      Form(<< StringFindProc >>),
      Form(<< StringFindProc, String("b") >>),
      Form(<< StringFindProc, String("bc"), String("abc") >>),
      Form(<< StringFindProc, String("z"), String("abc") >>),
      Form(<< StringFindProc, Integer(1), String("abc") >>),
      Form(<< StringFindProc, String("b"), Integer(1) >>) }

\* Closures over the environment c.
Identity(c) == Procedure(<< Sym("x") >>, << X >>, c, FALSE)
TwoArgs(c) == Procedure(<< Sym("x"), Sym("y") >>,
                        << Form(<< Symbol(Sym("prn")), X >>), Y >>, c, FALSE)
Variadic(c) == Procedure(<< Sym("x"), Sym("y") >>, << Y >>, c, TRUE)
VariadicOne(c) == Procedure(<< Sym("x") >>, << X >>, c, TRUE)
VariadicTwice(c) == Procedure(<< Sym("x"), Sym("x") >>, << X >>, c, TRUE)
FreeY(c) == Procedure(<< Sym("x") >>, << Y >>, c, FALSE)
NoBody(c) == Procedure(<< >>, << >>, c, FALSE)
\* Calls its argument on itself in tail position.
TailLoop(c) == Procedure(<< Sym("f") >>, << Form(<< F, F >>) >>, c, FALSE)
\* Calls its argument on itself before its last body expression.
DeepLoop(c) == Procedure(<< Sym("f") >>, << Form(<< F, F >>), Integer(1) >>, c, FALSE)

\* Expressions without a closure in them.
PlainPrograms ==
    { Integer(7), Float("1.5"), String("s"), Nil, DefineForm, PrnProc,
      X, Y, Symbol(Sym("null")), Symbol(99),
      Form(<< Symbol(Sym("prn")), X >>),
      Form(<< Symbol(Sym("string")), X, String("a"), Y >>),
      Form(<< Symbol(Sym("prn")) >>),
      Form(<< PrnProc, Integer(1), Nil >>),
      Pair(Symbol(Sym("prn")), X),
      Form(<< Integer(1), X >>),
      Form(<< String("s") >>),
      Form(<< X, Y >>),
      Form(<< Float("1.5"), X >>),
      Pair(X, Integer(1)),
      Pair(Integer(1), Pair(X, Integer(2))),
      Pair(DefineForm, Pair(X, Integer(2))),
      Form(<< Symbol(Sym("define")), X, Integer(1) >>),
      Form(<< Symbol(Sym("define")), Y, X >>),
      Form(<< Symbol(Sym("define")), X >>),
      Form(<< Symbol(Sym("define")), X, Integer(1), Integer(2) >>),
      Form(<< Symbol(Sym("define")), Form(<< F, X >>), X >>),
      Form(<< Symbol(Sym("define")), Form(<< Integer(1), X >>), X >>),
      Form(<< Symbol(Sym("define")), Integer(1), Integer(2) >>),
      Form(<< DefineMacroForm, Form(<< F, X >>), X >>),
      Form(<< Form(<< Symbol(Sym("lambda")), Form(<< X >>), X >>), Integer(5) >>),
      Form(<< Form(<< Symbol(Sym("lambda*")), Form(<< X >>), X >>), Integer(5) >>),
      Form(<< Symbol(Sym("lambda")) >>),
      Form(<< Symbol(Sym("lambda")), Integer(1), X >>),
      Form(<< LetForm, Form(<< Form(<< X, Integer(1) >>), Form(<< Y, X >>) >>), Y >>),
      Form(<< LetForm, Form(<< Form(<< X, Integer(1) >>) >>),
              Form(<< Symbol(Sym("prn")), X >>), X >>),
      Form(<< LetForm, F, Form(<< Form(<< X, Integer(1) >>) >>), X >>),
      Form(<< LetForm, Form(<< Form(<< X, Integer(1) >>) >>) >>),
      Form(<< LetForm, Integer(5), X >>),
      Form(<< LetForm, Form(<< Form(<< X >>) >>), X >>),
      Form(<< LetForm, Nil, Integer(1) >>) } \cup StringPrograms

\* Expressions with closures over the environment c.
ClosurePrograms(c) ==
    { Identity(c),
      Form(<< Identity(c) >>),
      Form(<< Identity(c), Integer(1) >>),
      Form(<< Identity(c), Integer(1), Integer(2) >>),
      Form(<< Identity(c), Form(<< Identity(c), Y >>) >>),
      Pair(Identity(c), Integer(1)),
      Form(<< TwoArgs(c), Integer(1), Integer(2) >>),
      Form(<< TwoArgs(c), X >>),
      Form(<< TwoArgs(c), Integer(1), Integer(2), X >>),
      Form(<< NoBody(c), Integer(1) >>),
      Form(<< TwoArgs(c) >>),
      Form(<< Variadic(c) >>),
      Form(<< Variadic(c), Integer(1) >>),
      Form(<< Variadic(c), Integer(1), X >>),
      Form(<< Variadic(c), Integer(1), Integer(2), Integer(3) >>),
      Form(<< VariadicOne(c) >>),
      Form(<< VariadicOne(c), Integer(1), Integer(2) >>),
      Form(<< VariadicTwice(c), Integer(1), Integer(2) >>),
      Form(<< FreeY(c), Integer(1) >>),
      Form(<< NoBody(c) >>),
      Form(<< TailLoop(c), TailLoop(c) >>),
      Form(<< DeepLoop(c), DeepLoop(c) >>) }

\* ---------------------------------------------------------------- the host
HostSyms == {"x", "y"}
HostVals == {Integer(1), Integer(2)}

\* The names the host interns: the marker, a new name, and the name
\* unique_symbol will make after one more symbol.
HostNames == {"!", "z", "_uniq#" \o ToString(akashic_symbol_count + 1)}

\* The host has not yet called eval or destructure_assign.  In this model it
\* prepares either the symbol table or the namespaces before it does.
Idle == ~aborted /\ stack = << >> /\ host.evals = 0 /\ host.binds = 0

\* The host calls intern_symbol(name).
HostIntern(name) ==
    /\ Idle
    /\ host.interns < MaxHostInterns
    /\ host.news = 0 /\ host.inserts = 0
    /\ LET r == InternSymbol(Eng, name)
       IN  /\ SetEng(r.eng)
           /\ host' = [host EXCEPT !.interns = @ + 1,
                                   !.last = [op |-> "intern", name |-> name,
                                             id |-> r.id]]
    /\ UNCHANGED << envs, stack, ret, aborted, out, lastInsert, fin >>

\* The host calls unique_symbol().
HostUnique ==
    /\ Idle
    /\ host.interns < MaxHostInterns
    /\ host.news = 0 /\ host.inserts = 0
    /\ LET r == UniqueSymbol(Eng)
       IN  /\ SetEng(r.eng)
           /\ host' = [host EXCEPT !.interns = @ + 1,
                                   !.last = [op |-> "unique", id |-> r.id]]
    /\ UNCHANGED << envs, stack, ret, aborted, out, lastInsert, fin >>

\* The host makes a namespace with Namespace::new(parent).
HostNew(parent) ==
    /\ Idle
    /\ host.news < MaxHostEnvs
    /\ host.interns = 0
    /\ Len(envs) < MaxEnvs
    /\ envs' = Append(envs, NamespaceNew(parent))
    /\ host' = [host EXCEPT !.news = @ + 1]
    /\ UNCHANGED << interned_symbols, akashic_symbol_count, stack, ret, aborted,
                    out, lastInsert, fin >>

\* The host calls insert(symbol, target) on the namespace e.
HostInsert(e, symbol, target) ==
    /\ Idle
    /\ host.inserts < MaxHostInserts
    /\ host.interns = 0
    /\ envs' = Insert(envs, e, symbol, target)
    /\ host' = [host EXCEPT !.inserts = @ + 1]
    /\ lastInsert' = [env |-> e, symbol |-> symbol, target |-> target]
    /\ UNCHANGED << interned_symbols, akashic_symbol_count, stack, ret, aborted,
                    out, fin >>

\* The host calls eval(env, expr).
HostEval(env, expr) ==
    /\ Idle
    /\ stack' = << Frame(env, expr) >>
    /\ host' = [host EXCEPT !.evals = @ + 1, !.env = env, !.prog = expr]
    /\ UNCHANGED << interned_symbols, akashic_symbol_count, envs, ret, aborted,
                    out, lastInsert, fin >>

\* The wildcard pattern.
W == Symbol(Sym("_"))

\* The patterns the host gives to destructure_assign.
Patterns ==
    { X, W, Nil, Integer(1),
      Form(<< X >>), Form(<< W >>), Form(<< X, Y >>), Form(<< X, W >>),
      Form(<< X, X >>), Form(<< X, Y, F >>), Form(<< Integer(1), Integer(2) >>),
      Form(<< Integer(1), W >>), Form(<< Form(<< X, Y >>), F >>), Pair(X, Y) }

\* The values: those patterns as data, and lists of numbers of every length
\* up to four.
Values ==
    Patterns \cup
    { Integer(2), String("s"), Form(<< Integer(1) >>),
      Form(<< Integer(1), Integer(2), Integer(3) >>),
      Form(<< Integer(1), Integer(2), Integer(3), Integer(4) >>),
      Form(<< Form(<< Integer(1), Integer(2) >>), Integer(3) >>),
      Pair(Integer(1), Integer(2)) }

\* The host calls destructure_assign(spec, val).
HostDestructure(spec, val) ==
    /\ Idle
    /\ host.news = 0 /\ host.inserts = 0
    /\ LET r == DestructureAssign(Eng, spec, val)
       IN  /\ SetEng(r.eng)
           /\ out' = out \o r.printed
           /\ host' = [host EXCEPT !.binds = @ + 1,
                                   !.last = [op |-> "bind", spec |-> spec,
                                             val |-> val, ok |-> r.ok,
                                             map |-> r.map, err |-> r.err,
                                             steps |-> r.steps]]
    /\ UNCHANGED << envs, stack, ret, aborted, lastInsert, fin >>

\* -------------------------------------------------------- the specification
\* The calls the host can make while no evaluation is going on.
HostStep ==
    /\ Idle
    /\ \/ \E p \in DOMAIN envs : HostNew(p)
       \/ \E name \in HostNames : HostIntern(name)
       \/ HostUnique
       \/ \E spec \in Patterns, val \in Values : HostDestructure(spec, val)
       \/ \E e \in DOMAIN envs, n \in HostSyms, v \in HostVals :
              HostInsert(e, Sym(n), v)
       \/ \E e \in DOMAIN envs, c \in DOMAIN envs :
              \E expr \in PlainPrograms \cup ClosurePrograms(c) : HostEval(e, expr)

Next ==
    \/ HostStep
    \/ EvalLiteral
    \/ EvalNoArm
    \/ EvalSymbol
    \/ EvalPair
    \/ ApplyImproper
    \/ ApplyNative
    \/ ApplyProcedure
    \/ ApplyNotProcedure
    \/ EvalOperand
    \/ CollectOperand
    \/ CallNativeProcedure
    \/ BindParameters
    \/ EvalBody
    \/ DropBody
    \/ TailCall
    \/ Define
    \/ DefineInsert
    \/ Lambda
    \/ Let
    \/ LetBind
    \/ LetInsert
    \/ LetNamed
    \/ LetBody
    \/ LetEvalBody
    \/ LetDropBody
    \/ LetTail
    \/ LetExit
    \/ Apply

Spec == Init /\ [][Next]_vars

\* ------------------------------------------------- notions the claims use
RECURSIVE ChainOf(_, _)
\* The scopes from e outward to the root, e first.
ChainOf(heap, e) ==
    IF heap[e].parent = 0 THEN << e >>
    ELSE << e >> \o ChainOf(heap, heap[e].parent)

\* The scope e has a mapping for s.
Binds(heap, e, s) == s \in DOMAIN heap[e].mappings

\* b is the first scope on the chain of d that has a mapping for s.
NearestBinder(heap, d, b, s) ==
    LET chain == ChainOf(heap, d)
    IN  \E i \in 1..Len(chain) :
            /\ chain[i] = b
            /\ Binds(heap, b, s)
            /\ \A j \in 1..(i - 1) : ~Binds(heap, chain[j], s)

\* No scope on the chain of d has a mapping for s.
BoundNowhere(heap, d, s) ==
    \A i \in 1..Len(ChainOf(heap, d)) : ~Binds(heap, ChainOf(heap, d)[i], s)

RECURSIVE ProperList(_)
\* The right spine of expr ends in Nil.
ProperList(expr) ==
    \/ expr.tag = "Nil"
    \/ expr.tag = "Pair" /\ ProperList(expr.cdr)

RECURSIVE Elements(_)
\* The elements of a proper list, in order.
Elements(expr) ==
    IF expr.tag = "Pair" THEN << expr.car >> \o Elements(expr.cdr) ELSE << >>

\* The operator and the operands of the application form expr, as the calls
\* of eval in the environment env, in the order of the form.
OperatorAndOperands(env, expr) ==
    LET all == << expr.car >> \o Elements(expr.cdr)
    IN  [i \in 1..Len(all) |-> [env |-> env, expr |-> all[i]]]

\* The evaluation the host started is over.
Finished == stack = << >> /\ host.evals = 1 /\ ret # None

\* ------------------------------------------------------------------ claims
\* C1: for every environment, eval of an Integer, Float, String, Nil,
\* SpecialForm, NativeProcedure or Procedure returns that value unchanged and
\* leaves every environment as it was.
C1_SelfEvaluating ==
    [][ (At("eval_rec") /\ Top.expr.tag \in
            {"Integer", "Float", "String", "Nil", "SpecialForm",
             "NativeProcedure", "Procedure"})
        => (~aborted' /\ ret' = Top.expr /\ stack' = Tail(stack) /\ envs' = envs)
      ]_vars

\* C2: after insert(s, v) on a scope, eval of the symbol s in that scope, or
\* in a descendant with no nearer mapping for s, returns v; eval of a symbol
\* bound nowhere on the chain returns a pair whose car is the marker symbol;
\* neither aborts.
C2_InsertThenEval ==
    [][ (At("eval_rec") /\ Top.expr.tag = "Symbol")
        => /\ ~aborted'
           /\ stack' = Tail(stack)
           /\ (/\ lastInsert # None
               /\ lastInsert.symbol = Top.expr.id
               /\ NearestBinder(envs, Top.env, lastInsert.env, Top.expr.id))
              => ret' = lastInsert.target
           /\ BoundNowhere(envs, Top.env, Top.expr.id)
              => (ret'.tag = "Pair" /\ ret'.car = Symbol(interned_symbols'["!"]))
      ]_vars

\* The symbol was inserted in an ancestor of the scope it was evaluated in.
C2_Witness ==
    /\ Finished
    /\ fin.pc = "eval_rec"
    /\ fin.expr.tag = "Symbol"
    /\ lastInsert # None
    /\ lastInsert.symbol = fin.expr.id
    /\ fin.env # lastInsert.env
    /\ ret = lastInsert.target

\* The programs that apply TailLoop to itself.
TailLoopPrograms == { Form(<< TailLoop(c), TailLoop(c) >>) : c \in DOMAIN envs }

\* C3: while a procedure whose only recursive call is its last body
\* expression runs, at most two invocations of eval are active, however many
\* times it has called itself.
C3_TailCallStack ==
    host.prog \in TailLoopPrograms => Len(stack) <= 2

\* The procedure has called itself three times or more.
C3_Witness ==
    /\ host.prog \in TailLoopPrograms
    /\ Len(envs) >= 1 + host.news + 3
    /\ stack # << >>

\* C4: a call of a non-variadic procedure of n parameters with k < n operands
\* returns the error whose payload is (n, false, k) without evaluating a body
\* expression and without touching the caller's or the closure's scope; with
\* k = n operands it goes on to the body.
C4_FixedArity ==
    [][ (At("pargs") /\ Len(Top.evaled) = Len(Top.args) /\ ~Top.car.variadic)
        => LET n == Len(Top.car.args)
               k == Len(Top.evaled)
           IN  /\ ~aborted'
               /\ k < n =>
                    /\ stack' = Tail(stack)
                    /\ ret'.tag = "Pair"
                    /\ ret'.car = Symbol(interned_symbols'["!"])
                    /\ ret'.cdr.cdr =
                          Pair(Pair(Integer(n),
                                    Pair(Symbol(interned_symbols'["false"]),
                                         Pair(Integer(k), Nil))),
                               Nil)
                    /\ envs'[Top.env] = envs[Top.env]
                    /\ envs'[Top.car.env] = envs[Top.car.env]
               /\ (k = n /\ Top.car.body # << >>) =>
                    /\ ret' = None
                    /\ Len(stack') = Len(stack)
                    /\ stack'[1].pc = "body"
      ]_vars

\* A procedure of two parameters was called with one operand.
C4_Witness ==
    /\ Finished
    /\ fin.pc = "pargs"
    /\ ~fin.car.variadic
    /\ Len(fin.car.args) = 2
    /\ Len(fin.evaled) = 1
    /\ ret.tag = "Pair"

\* C5: a call of a variadic procedure of n >= 1 parameters with k >= n-1
\* operands binds the first n-1 parameters by position (a name that comes
\* again later keeps the later binding) and the last to the proper list of
\* the values n-1..k-1 (Nil when k = n-1) and goes on; with k < n-1 operands
\* it returns an arity error.
C5_Variadic ==
    [][ (/\ At("pargs") /\ Len(Top.evaled) = Len(Top.args)
         /\ Top.car.variadic /\ Len(Top.car.args) >= 1)
        => LET n == Len(Top.car.args)
               k == Len(Top.evaled)
               m == envs'[Top.arg_env].mappings
           IN  /\ ~aborted'
               /\ k >= n - 1 =>
                    /\ DOMAIN m = { Top.car.args[i] : i \in 1..n }
                    /\ \A i \in 1..(n - 1) :
                          (\A j \in (i + 1)..n : Top.car.args[j] # Top.car.args[i])
                          => m[Top.car.args[i]] = Top.evaled[i]
                    /\ ProperList(m[Top.car.args[n]])
                    /\ Elements(m[Top.car.args[n]]) = SubSeq(Top.evaled, n, k)
                    /\ k = n - 1 => m[Top.car.args[n]] = Nil
                    /\ Top.car.body # << >> =>
                          /\ ret' = None
                          /\ Len(stack') = Len(stack)
                          /\ stack'[1].pc = "body"
               /\ k < n - 1 =>
                    /\ stack' = Tail(stack)
                    /\ ret'.tag = "Pair"
                    /\ ret'.car = Symbol(interned_symbols'["!"])
                    /\ ret'.cdr.cdr =
                          Pair(Pair(Integer(n),
                                    Pair(Symbol(interned_symbols'["true"]),
                                         Pair(Integer(k), Nil))),
                               Nil)
      ]_vars

\* A variadic procedure of two parameters was called with three operands.
C5_Witness ==
    /\ stack # << >>
    /\ Top.pc = "body"
    /\ Top.car.variadic
    /\ Len(Top.car.args) = 2
    /\ Len(Top.evaled) = 3
    /\ Elements(envs[Top.arg_env].mappings[Top.car.args[2]]) = SubSeq(Top.evaled, 2, 3)

\* The programs that apply FreeY, whose body is the free symbol y.
FreeYPrograms == { Form(<< FreeY(c), Integer(1) >>) : c \in DOMAIN envs }

\* C6: the body of an applied procedure is evaluated in a new scope whose
\* parent is the scope the closure captured; a free symbol of the body gets
\* the binding on the captured chain, and is undefined when only the
\* caller's chain binds it.
C6_LexicalScope ==
    [][ /\ (At("body") /\ stack'[1] # stack[1] /\ Len(stack') >= Len(stack))
           => /\ stack'[1].env = Top.arg_env
              /\ stack'[1].expr \in { Top.car.body[i] : i \in 1..Len(Top.car.body) }
              /\ envs[Top.arg_env].parent = Top.car.env
        /\ (Finished' /\ host'.prog \in FreeYPrograms)
           => LET c == host'.prog.car.env
                  y == host'.prog.car.body[1].id
              IN  IF BoundNowhere(envs', c, y)
                  THEN /\ ret'.tag = "Pair"
                       /\ ret'.car = Symbol(interned_symbols'["!"])
                       /\ ret'.cdr.cdr.car = Symbol(y)
                  ELSE \E b \in DOMAIN envs' :
                           /\ NearestBinder(envs', c, b, y)
                           /\ ret' = envs'[b].mappings[y]
      ]_vars

\* The caller's scope binds y, the captured chain does not, and the body's y
\* came out undefined.
C6_Witness ==
    /\ Finished
    /\ host.prog \in FreeYPrograms
    /\ lastInsert # None
    /\ lastInsert.symbol = host.prog.car.body[1].id
    /\ lastInsert.env = host.env
    /\ BoundNowhere(envs, host.prog.car.env, lastInsert.symbol)
    /\ ret.tag = "Pair"

\* What C7 asks of the invocation f, given whether a call it made is still
\* running or has its value in flight.
C7_FrameInOrder(f, pending) ==
    LET want == OperatorAndOperands(f.env, f.expr)
    IN  /\ f.pc \in {"nargs", "pargs"} =>
            /\ Len(f.log) <= Len(want)
            /\ f.log = SubSeq(want, 1, Len(f.log))
            /\ Len(f.log) = 1 + Len(f.evaled) + (IF pending THEN 1 ELSE 0)
        /\ (f.pc = "body" /\ f.kind = "eval") =>
            /\ Len(f.log) >= Len(want)
            /\ SubSeq(f.log, 1, Len(want)) = want
            /\ \A i \in (Len(want) + 1)..Len(f.log) : f.log[i].env = f.arg_env

\* C7: in a call of a NativeProcedure or a Procedure the operator is
\* evaluated first, then each operand once, from left to right, in the
\* caller's environment, all before the native function is called or a body
\* expression is evaluated.
C7_OperandOrder ==
    /\ \A j \in 1..Len(stack) :
           C7_FrameInOrder(stack[j],
                           IF j = 1 THEN ret # None ELSE TRUE)
    /\ fin.pc \in {"nargs", "pargs"}
       => fin.log = OperatorAndOperands(fin.env, fin.expr)

\* A native procedure was called on the values of three operands.
C7_Witness ==
    /\ ret # None
    /\ fin.pc = "nargs"
    /\ Len(fin.evaled) = 3
    /\ fin.log = OperatorAndOperands(fin.env, fin.expr)

\* C8: an application whose operator evaluates to no SpecialForm,
\* NativeProcedure or Procedure, with a proper list of operands, returns the
\* error "application: not a procedure" with the operator's value as payload;
\* no operand is evaluated and eval does not abort.
C8_NotAProcedure ==
    [][ (/\ Back("car") /\ ProperList(Top.expr.cdr)
         /\ ret.tag \notin {"SpecialForm", "NativeProcedure", "Procedure"})
        => /\ ~aborted'
           /\ stack' = Tail(stack)
           /\ ret' = Pair(Symbol(interned_symbols'["!"]),
                          Pair(String("application: not a procedure"),
                               Pair(ret, Nil)))
           /\ Top.log = << [env |-> Top.env, expr |-> Top.expr.car] >>
           /\ envs' = envs
      ]_vars

\* A symbol bound to a number was applied to an operand.
C8_Witness ==
    /\ Finished
    /\ fin.pc = "car"
    /\ fin.expr.car.tag = "Symbol"
    /\ fin.expr.cdr.tag = "Pair"
    /\ ProperList(fin.expr.cdr)
    /\ ret.cdr.cdr.car.tag = "Integer"
    /\ ret.cdr.car = String("application: not a procedure")

\* C9: an application whose cdr is not a proper list returns the error
\* "application: cdr must be a proper list", whatever the operator evaluates
\* to: no operand is evaluated and no special form, native procedure or
\* procedure body is run.
C9_ImproperOperands ==
    [][ (Back("car") /\ ~ProperList(Top.expr.cdr))
        => /\ ~aborted'
           /\ stack' = Tail(stack)
           /\ ret' = Pair(Symbol(interned_symbols'["!"]),
                          Pair(String("application: cdr must be a proper list"),
                               Pair(Top.expr.cdr, Nil)))
           /\ Top.log = << [env |-> Top.env, expr |-> Top.expr.car] >>
           /\ envs' = envs
           /\ out' = out
      ]_vars

\* The operator was a native procedure, a special form or a procedure.
C9_Witness ==
    /\ Finished
    /\ fin.pc = "car"
    /\ ~ProperList(fin.expr.cdr)
    /\ fin.log[1].expr.tag \in {"Symbol", "SpecialForm", "Procedure"}
    /\ ret.cdr.car = String("application: cdr must be a proper list")

\* The scope and the symbols the step from the current state may insert
\* into, when it is an insert of define, let_ or procedure application.
InsertTarget ==
    IF Back("define")
    THEN [env |-> Top.env, symbols |-> { Top.args[1].id }]
    ELSE IF Back("let_bind")
    THEN [env |-> Top.arg_env,
          symbols |-> { SexpToList(LetBindings[Top.idx]).it[1].id }]
    ELSE IF At("pargs") /\ Len(Top.evaled) = Len(Top.args)
    THEN [env |-> Top.arg_env,
          symbols |-> { Top.car.args[i] : i \in 1..Len(Top.car.args) }]
    ELSE [env |-> 0, symbols |-> {}]

\* C10: an insert changes only the mapping of its symbol in its scope: every
\* other mapping of that scope, every ancestor and every other scope stay as
\* they were, so a lookup made on an ancestor gives what it gave before.
\* This holds for the host's inserts and for those of procedure application,
\* let_ and define.
C10_InsertIsLocal ==
    [][ /\ Len(envs') >= Len(envs)
        /\ \A e \in DOMAIN envs :
              /\ envs'[e].parent = envs[e].parent
              /\ envs'[e] # envs[e] =>
                    /\ \A o \in DOMAIN envs : o # e => envs'[o] = envs[o]
                    /\ DOMAIN envs[e].mappings \subseteq DOMAIN envs'[e].mappings
                    /\ IF Idle
                       THEN /\ lastInsert' # None
                            /\ e = lastInsert'.env
                            /\ \A t \in DOMAIN envs[e].mappings :
                                  t # lastInsert'.symbol
                                  => envs'[e].mappings[t] = envs[e].mappings[t]
                       ELSE /\ e = InsertTarget.env
                            /\ \A t \in DOMAIN envs[e].mappings :
                                  t \notin InsertTarget.symbols
                                  => envs'[e].mappings[t] = envs[e].mappings[t]
                    /\ \A i \in 2..Len(ChainOf(envs, e)) :
                          \A s \in DOMAIN envs'[e].mappings :
                              Lookup(envs', ChainOf(envs, e)[i], s)
                                  = Lookup(envs, ChainOf(envs, e)[i], s)
      ]_vars

\* define bound, in a child scope, a symbol that an ancestor binds to
\* another value.
C10_Witness ==
    /\ Finished
    /\ fin.pc = "define"
    /\ envs[fin.env].parent # 0
    /\ \E s \in DOMAIN envs[fin.env].mappings :
          LET up == Lookup(envs, envs[fin.env].parent, s)
          IN  up # None /\ up.it # envs[fin.env].mappings[s]

\* The symbols a lookup is asked for: those the programs and the host bind,
\* every symbol bound below the root, one only the library binds and one
\* that was never interned.
AllSymbols(heap) ==
    UNION { DOMAIN heap[e].mappings : e \in DOMAIN heap \ {1} }
        \cup { Sym("x"), Sym("y"), Sym("f"), Sym("prn"), 99 }

\* lookup(s) on d gives the value of the nearest scope of d's chain that
\* binds s, and None exactly when no scope of the chain binds s.
LookupIsNearest(heap, d, s) ==
    /\ \A b \in DOMAIN heap :
          NearestBinder(heap, d, b, s)
          => Lookup(heap, d, s) = Some(heap[b].mappings[s])
    /\ (Lookup(heap, d, s) = None) <=> BoundNowhere(heap, d, s)

\* C11: lookup(s) returns the value bound in the nearest scope of the parent
\* chain that has a mapping for s, the scope itself first, and "not found"
\* exactly when no scope of the chain binds s (eval of a symbol returns what
\* lookup found); a step that gives a scope its first mapping for s changes
\* the lookups of that scope and of the descendants with no nearer mapping
\* to the new value, which before the step gave what the parent's chain
\* gives.  (Every heap is the first one, of one scope, or comes from a step
\* that changes the heap, so the lookups are compared on those steps.)
C11_LookupNearest ==
    [][ /\ (At("eval_rec") /\ Top.expr.tag = "Symbol")
           => /\ LookupIsNearest(envs, Top.env, Top.expr.id)
              /\ \A b \in DOMAIN envs :
                     NearestBinder(envs, Top.env, b, Top.expr.id)
                     => ret' = envs[b].mappings[Top.expr.id]
        /\ envs' # envs
           => /\ Len(envs) = 1
                 => \A s \in AllSymbols(envs) : LookupIsNearest(envs, 1, s)
              /\ \A d \in DOMAIN envs', s \in AllSymbols(envs') :
                     LookupIsNearest(envs', d, s)
              /\ \A e \in DOMAIN envs, s \in AllSymbols(envs') :
                     (Binds(envs', e, s) /\ ~Binds(envs, e, s))
                     => \A d \in DOMAIN envs :
                            NearestBinder(envs', d, e, s)
                            => /\ Lookup(envs', d, s) = Some(envs'[e].mappings[s])
                               /\ Lookup(envs, d, s) =
                                     (IF envs[e].parent = 0 THEN None
                                      ELSE Lookup(envs, envs[e].parent, s))
      ]_vars

\* eval of a symbol returned the binding of the scope it ran in while the
\* parent of that scope binds the symbol to another value.
C11_Witness ==
    /\ Finished
    /\ fin.pc = "eval_rec"
    /\ fin.expr.tag = "Symbol"
    /\ Binds(envs, fin.env, fin.expr.id)
    /\ ret = envs[fin.env].mappings[fin.expr.id]
    /\ envs[fin.env].parent # 0
    /\ LET up == Lookup(envs, envs[fin.env].parent, fin.expr.id)
       IN  up # None /\ up.it # ret

\* v is a proper list (marker message) or (marker message payload).
ErrShape(v, marker) ==
    /\ ProperList(v)
    /\ Len(Elements(v)) \in {2, 3}
    /\ Elements(v)[1] = Symbol(marker)
    /\ Elements(v)[2].tag = "String"

\* The test "is this value an error".
IsError(v, marker) == v.tag = "Pair" /\ v.car = Symbol(marker)

\* The payloads make_err is tried with: none, an atom, a list.
ErrPayloads == { None, Some(Integer(1)), Some(Nil), Some(Form(<< X, Integer(2) >>)) }

\* The innermost invocation is about to leave eval_rec by one of its
\* failure paths: undefined symbol, improper operands, not a procedure, too
\* few arguments, no body.
FailurePath ==
    \/ At("eval_rec") /\ Top.expr.tag = "Symbol"
         /\ BoundNowhere(envs, Top.env, Top.expr.id)
    \/ Back("car") /\ ~ProperList(Top.expr.cdr)
    \/ Back("car") /\ ProperList(Top.expr.cdr)
         /\ ret.tag \notin {"SpecialForm", "NativeProcedure", "Procedure"}
    \/ At("pargs") /\ Len(Top.evaled) = Len(Top.args)
         /\ \/ Len(Top.evaled) < Len(Top.car.args) - (IF Top.car.variadic THEN 1 ELSE 0)
            \/ Top.car.body = << >>

\* make_err on the engine state eng gives, for each payload, the list
\* (marker message) or (marker message payload).
MakeErrWellFormed(eng) ==
    \A ud \in ErrPayloads :
        LET r == MakeErr(eng, "msg", ud)
        IN  /\ ErrShape(r.val, eng.interned_symbols["!"])
            /\ Len(Elements(r.val)) = IF ud = None THEN 2 ELSE 3
            /\ Elements(r.val)[2] = String("msg")
            /\ ud # None => Elements(r.val)[3] = ud.it
            /\ IsError(r.val, eng.interned_symbols["!"])
            /\ r.eng = eng

\* C12: whatever has been interned, make_err gives a proper list of 2
\* elements without a payload and of 3 with one, whose first element is the
\* Symbol of the marker "!", whose id never changes, and whose second is the
\* message String; so every error a failure path of eval_rec returns is a
\* pair whose car is the marker symbol.  (Every symbol table is the first
\* one or comes from a step that changes the table, so make_err is tried on
\* those steps.)
C12_MakeErrShape ==
    [][ /\ interned_symbols'["!"] = interned_symbols["!"]
        /\ interned_symbols' # interned_symbols
           => /\ MakeErrWellFormed(Eng)
              /\ MakeErrWellFormed([interned_symbols |-> interned_symbols',
                                    akashic_symbol_count |-> akashic_symbol_count'])
        /\ FailurePath
           => /\ stack' = Tail(stack)
              /\ ErrShape(ret', interned_symbols'["!"])
              /\ IsError(ret', interned_symbols'["!"])
      ]_vars

\* After the host interned a new name, an application of a procedure with
\* no body returned the error without payload.
C12_Witness ==
    /\ Finished
    /\ "z" \in DOMAIN interned_symbols
    /\ fin.pc = "pargs"
    /\ fin.car.body = << >>
    /\ ErrShape(ret, interned_symbols["!"])
    /\ Len(Elements(ret)) = 2

\* The host's last call was destructure_assign.
Bound == host.last.op = "bind"

\* p is a proper list of symbols.
SymbolList(p) ==
    /\ ProperList(p)
    /\ \A i \in 1..Len(Elements(p)) : Elements(p)[i].tag = "Symbol"

\* p is a proper list of distinct symbols, none of them the wildcard.
CaptureList(p) ==
    /\ SymbolList(p)
    /\ \A i \in 1..Len(Elements(p)) :
          /\ Elements(p)[i] # W
          /\ \A j \in 1..Len(Elements(p)) :
                 Elements(p)[i] = Elements(p)[j] => i = j

\* C13: a proper list of n distinct capture symbols bound against a proper
\* list of exactly n values succeeds with the mapping that sends the i-th
\* symbol to the i-th value and has no other key.
C13_ListPattern ==
    (/\ Bound
     /\ CaptureList(host.last.spec)
     /\ ProperList(host.last.val)
     /\ Len(Elements(host.last.val)) = Len(Elements(host.last.spec)))
    => LET ps == Elements(host.last.spec)
           vs == Elements(host.last.val)
       IN  /\ host.last.ok
           /\ DOMAIN host.last.map = { ps[i].id : i \in 1..Len(ps) }
           /\ \A i \in 1..Len(ps) : host.last.map[ps[i].id] = vs[i]

\* (x y f) was bound against (1 2 3).
C13_Witness ==
    /\ Bound
    /\ host.last.spec = Form(<< X, Y, F >>)
    /\ host.last.val = Form(<< Integer(1), Integer(2), Integer(3) >>)
    /\ host.last.ok
    /\ host.last.map[F.id] = Integer(3)

\* C14: a proper list of n symbols bound against a proper list of fewer
\* than n values fails with the "lack of value with no default" error, met
\* at the first pattern element that has no value, and gives no bindings,
\* not even those of the elements that matched.
C14_TooFewValues ==
    (/\ Bound
     /\ SymbolList(host.last.spec)
     /\ ProperList(host.last.val)
     /\ Len(Elements(host.last.val)) < Len(Elements(host.last.spec)))
    => LET k == Len(Elements(host.last.val))
           n == Len(host.last.steps)
       IN  /\ ~host.last.ok
           /\ host.last.err.it.kind = "assignment/no-default"
           /\ host.last.err.it.msg = "lack of value with no default"
           /\ host.last.map = EmptyMap
           /\ host.last.steps[n].spec = Elements(host.last.spec)[k + 1]
           /\ host.last.steps[n].val = None
           /\ \A i \in 1..(n - 1) : host.last.steps[i].val # None

\* (x y f) was bound against (1 2): x and y had matched before f failed.
C14_Witness ==
    /\ Bound
    /\ host.last.spec = Form(<< X, Y, F >>)
    /\ host.last.val = Form(<< Integer(1), Integer(2) >>)
    /\ ~host.last.ok
    /\ \E i \in 1..Len(host.last.steps) :
          /\ host.last.steps[i].spec = Y
          /\ host.last.steps[i].ok
          /\ host.last.steps[i].map = (Y.id :> Integer(2))

\* C15: every match step whose pattern is the wildcard, against a value or
\* against "no value", succeeds with no bindings.
C15_Wildcard ==
    Bound
    => \A i \in 1..Len(host.last.steps) :
           host.last.steps[i].spec = W
           => host.last.steps[i].ok /\ host.last.steps[i].map = EmptyMap

\* C16 as claimed: a pattern equal to its value binds with no bindings.
C16_EqualMatches ==
    (Bound /\ host.last.spec = host.last.val)
    => host.last.ok /\ host.last.map = EmptyMap

RECURSIVE NoCapture(_)
\* p holds no symbol but the wildcard.
NoCapture(p) ==
    CASE p.tag = "Symbol" -> p = W
      [] p.tag = "Pair" -> NoCapture(p.car) /\ NoCapture(p.cdr)
      [] OTHER -> TRUE

\* C16, amended: a pattern with no capture symbol in it that is equal to
\* its value binds with no bindings.
C16_EqualLiteralMatches ==
    (Bound /\ host.last.spec = host.last.val /\ NoCapture(host.last.spec))
    => host.last.ok /\ host.last.map = EmptyMap

\* The pattern (1 2) was bound against the value (1 2).
C16_Witness ==
    /\ Bound
    /\ host.last.spec = Form(<< Integer(1), Integer(2) >>)
    /\ host.last.val = host.last.spec
    /\ host.last.ok
    /\ host.last.map = EmptyMap

\* The ids intern_symbol and unique_symbol have returned so far: the table
\* keeps every name it was ever given.
IdsGivenOut == { interned_symbols[n] : n \in DOMAIN interned_symbols }

\* C17: the id unique_symbol returns is none of the ids an earlier call of
\* intern_symbol or unique_symbol returned, whatever names were interned.
C17_UniqueSymbol ==
    [][ (host'.interns = host.interns + 1 /\ host'.last.op = "unique")
        => host'.last.id \notin IdsGivenOut
      ]_vars

\* C18: a call of destructure_assign writes nothing to standard output.
C18_NoConsoleOutput ==
    [][ host'.binds = host.binds + 1 => out' = out ]_vars

\* C19: every call of eval returns a value, the loop of eval never runs for
\* ever.  A loop that ends never takes a tail call back to the expression
\* it is evaluating in a scope equal (same mappings, same parent) to the one
\* it is evaluating it in: from there eval_rec does the same steps again and
\* comes to the same tail call, without end.
C19_EvalReturns ==
    [][ (At("body") /\ Top.idx = Len(Top.car.body))
        => ~(/\ Top.car.body[Top.idx] = Top.expr
             /\ envs[Top.arg_env] = envs[Top.env])
      ]_vars

\* The functions of strings.rs that take and give strings.
StringFuncs == {"to_string", "string_len", "string_slice", "string_find"}

\* C20: a string function of the library called with any number and type
\* of arguments returns a result or an error value; it never reads an
\* argument that is not there and never aborts.
C20_StringFunctionsReturn ==
    [][ (/\ At("nargs") /\ Len(Top.evaled) = Len(Top.args)
         /\ Top.car.nfunc \in StringFuncs)
        => /\ ~aborted'
           /\ stack' = Tail(stack)
           /\ ret' # None
      ]_vars

\* C21: a call of a non-variadic procedure of n parameters with k > n
\* operands makes no arity error: all k operands have been evaluated, from
\* left to right, in the caller's environment; the parameters are bound to
\* the first n values (a name that comes again keeps the later one), the
\* values n+1..k are bound nowhere and no other scope changes; and a
\* procedure with a body goes on to its first body expression.
C21_SurplusOperands ==
    [][ (/\ At("pargs") /\ Len(Top.evaled) = Len(Top.args)
         /\ ~Top.car.variadic /\ Len(Top.evaled) > Len(Top.car.args))
        => LET n == Len(Top.car.args)
               k == Len(Top.evaled)
               m == envs'[Top.arg_env].mappings
           IN  /\ ~aborted'
               /\ Len(Top.log) = 1 + k
               /\ Top.log = OperatorAndOperands(Top.env, Top.expr)
               /\ DOMAIN m = { Top.car.args[i] : i \in 1..n }
               /\ \A i \in 1..n :
                      (\A j \in (i + 1)..n : Top.car.args[j] # Top.car.args[i])
                      => m[Top.car.args[i]] = Top.evaled[i]
               /\ \A e \in DOMAIN envs \ {Top.arg_env} : envs'[e] = envs[e]
               /\ Len(envs') = Len(envs)
               /\ Top.car.body # << >> =>
                      /\ ret' = None
                      /\ interned_symbols' = interned_symbols
                      /\ stack' = << [Top EXCEPT !.pc = "body", !.idx = 1] >>
                                     \o Tail(stack)
      ]_vars

\* A procedure of two parameters called with three operands is at its body.
C21_Witness ==
    /\ At("body")
    /\ ~Top.car.variadic
    /\ Len(Top.car.args) = 2
    /\ Len(Top.evaled) = 3
    /\ DOMAIN envs[Top.arg_env].mappings = { Top.car.args[1], Top.car.args[2] }

\* C22: a proper list of n symbols bound against a proper list of more than
\* n values fails with the "cannot bind" error for the values from the
\* (n+1)-th on and the pattern's end (), met at the last match step after
\* every symbol has matched, and gives no bindings; so when such a pattern
\* does match, the value is a proper list of exactly n elements.
C22_TooManyValues ==
    (Bound /\ SymbolList(host.last.spec))
    => LET n == Len(Elements(host.last.spec))
           vs == Elements(host.last.val)
           rest == ListToSexp(SubSeq(vs, n + 1, Len(vs)))
           last == host.last.steps[Len(host.last.steps)]
       IN  /\ (ProperList(host.last.val) /\ Len(vs) > n) =>
                  /\ ~host.last.ok
                  /\ host.last.map = EmptyMap
                  /\ host.last.err.it.kind = "assignment/invalid"
                  /\ host.last.err.it.msg =
                         "cannot bind " \o WriteExpr(Eng, rest) \o " to ()"
                  /\ host.last.err.it.data = Some(ListToSexp(<< Nil, rest >>))
                  /\ last.spec = Nil
                  /\ last.val = Some(rest)
                  /\ ~last.ok
                  /\ \A i \in 1..Len(host.last.steps) :
                         host.last.steps[i].spec.tag = "Symbol"
                         => host.last.steps[i].ok
           /\ host.last.ok =>
                  /\ ProperList(host.last.val)
                  /\ Len(vs) = n

\* (x y) was bound against (1 2 3): x and y had matched before (3) was left
\* over for the end of the pattern.
C22_Witness ==
    /\ Bound
    /\ host.last.spec = Form(<< X, Y >>)
    /\ host.last.val = Form(<< Integer(1), Integer(2), Integer(3) >>)
    /\ ~host.last.ok
    /\ host.last.err.it.msg = "cannot bind (3) to ()"
    /\ \E i \in 1..Len(host.last.steps) :
          /\ host.last.steps[i].spec = Y
          /\ host.last.steps[i].ok
          /\ host.last.steps[i].map = (Y.id :> Integer(2))

====
